---- MODULE Spec2Model ----
(***************************************************************************)
(* Model of bookied_sync: the market-group reconciliation comparators      *)
(* (bettingmarketgroup.py) and the grading engine                          *)
(* (bettingmarketgroupresolve.py).                                         *)
(*                                                                         *)
(* Conventions                                                             *)
(*  - Numbers (over/under lines, handicaps, spreads, scores, metrics) are  *)
(*    fixed-point integers counting quarters: the integer v stands for the *)
(*    Python number v/Q.  All values used are dyadic, so the float         *)
(*    arithmetic of the source is exact on them.                           *)
(*  - Python's None is the empty sequence <<>>, a present value v is <<v>>.*)
(*    A present number is a float <<v>> or an int <<v, "int">>: the two    *)
(*    are equal as numbers and differ in what str() makes of them.         *)
(*  - A Python call either returns or raises; a result is a string:        *)
(*    "True", "False", "None" for returned values and the exception class  *)
(*    name ("ValueError", "KeyError", ...) for a raise.                    *)
(*  - A description text is a record [s, a, b]: the template/literal s     *)
(*    with the substituted numbers a and b.  str(x) of a number x is       *)
(*    [s |-> "num", a |-> x], str(None) is [s |-> "None"].                 *)
(***************************************************************************)
EXTENDS Integers, Sequences, FiniteSets, TLC

VARIABLES bmg, last, proposal_buffer

vars == <<bmg, last, proposal_buffer>>

(***************************************************************************)
(* Bounds and units                                                        *)
(***************************************************************************)
Q == 4

MaxCands == 2

MaxScore == 2

\* most operations the proposal buffer is followed for
MaxProposals == 2

\* most market-group operations proposed while the buffer is followed
MaxGroupProposals == 1

None == <<>>

Some(v) == <<v>>

\* a present number whose Python type is int; Some(v) is the float v/Q
SomeInt(v) == <<v, "int">>

IsInt(x) == Len(x) = 2

IsNone(x) == x = <<>>

Abs(x) == IF x >= 0 THEN x ELSE -x

\* Python truthiness of an optional number: None and 0 are falsy
TruthyNum(x) == x # None /\ x[1] # 0

\* int(x): truncation toward zero
PyInt(v) == IF v >= 0 THEN (v \div Q) * Q ELSE -(((-v) \div Q) * Q)

\* math.floor(x)
PyFloor(v) == (v \div Q) * Q

Text(s, a, b) == [s |-> s, a |-> a, b |-> b]

\* str(x) for an optional number: an int is spelled without a point
\* ("-1"), a float with one ("-1.0"), so the two texts differ
PyStr(x) == IF x = None THEN Text("None", 0, 0)
            ELSE IF IsInt(x) THEN Text("int", x[1], 0)
            ELSE Text("num", x[1], 0)

\* float(s) succeeds exactly on the texts that spell a number
IsNumeric(t) == t.s \in {"num", "int"}

PyFloat(t) == t.a

Errors == {"ValueError", "KeyError", "AssertionError", "IndexError",
           "RuntimeError", "StopIteration", "Exception", "TypeError",
           "AttributeError", "MissingMandatoryValue"}

IsError(r) == r \in Errors

(***************************************************************************)
(* Ledger ids.  An id "a.b.c" is the triple <<a, b, c>>.                   *)
(***************************************************************************)
EventIds == {<<1, 18, 1>>, <<1, 18, 2>>}

ProposalRefs == {<<0, 0, 0>>, <<0, 0, 1>>}

UnknownIds == {<<1, 18, 9>>}

\* Lookup.valid_object_id(id): a well-formed id that is not relative to a
\* proposal
valid_object_id(id) == id # None /\ id[1][1] # 0

\* Lookup.valid_object_id(id, Event): additionally the id resolves to an
\* Event object of the ledger
valid_event_id(id) == valid_object_id(id) /\ id[1] \in EventIds

(***************************************************************************)
(* Canonical naming                                                        *)
(***************************************************************************)
\* The authored description of a market-group: language -> template
DescriptionTemplate(tmpl) == << <<"en", tmpl>>, <<"sen", "plain">> >>

\* substitutions.substitute_bettingmarket_name applied to one template
SubstituteOne(tmpl, handicaps, overunder) ==
    CASE tmpl = "ou" ->
           Text("Over/Under {overunder.value} pts",
                IF overunder = None THEN 0 ELSE PyFloor(overunder[1]) + (Q \div 2), 0)
      [] tmpl = "hc" ->
           Text("Handicap {handicaps.home}:{handicaps.away}",
                IF handicaps = None \/ handicaps[1] = None THEN 0 ELSE handicaps[1][1],
                IF handicaps = None \/ handicaps[2] = None THEN 0 ELSE handicaps[2][1])
      [] OTHER -> Text("Total Points", 0, 0)

substitute_bettingmarket_name(d, handicaps, overunder) ==
    [i \in 1..Len(d) |-> <<d[i][1], SubstituteOne(d[i][2], handicaps, overunder)>>]

\* LookupBettingMarketGroup.description: list of [key, text] pairs
description(e) ==
    LET base == substitute_bettingmarket_name(DescriptionTemplate(e.tmpl),
                                              e.handicaps, e.overunder)
        hc   == IF e.handicaps # None
                THEN << <<"_dynamic", Text("hc", 0, 0)>>,
                        <<"_hch", PyStr(e.handicaps[1])>>,
                        <<"_hca", PyStr(e.handicaps[2])>> >>
                ELSE << >>
        \* a later assignment to an existing key keeps the key's position
        withhc == base \o hc
        ou   == IF TruthyNum(e.overunder)
                THEN IF e.handicaps # None
                     THEN [i \in 1..Len(withhc) |->
                             IF withhc[i][1] = "_dynamic"
                             THEN <<"_dynamic", Text("ou", 0, 0)>>
                             ELSE withhc[i]]
                          \o << <<"_ou", PyStr(e.overunder)>> >>
                     ELSE withhc \o << <<"_dynamic", Text("ou", 0, 0)>>,
                                       <<"_ou", PyStr(e.overunder)>> >>
                ELSE withhc
    IN  ou

\* membership of a [key, text] pair in a description list
InList(pair, l) == \E i \in 1..Len(l) : l[i] = pair

\* "key in dict(l)"
HasKey(l, k) == \E i \in 1..Len(l) : l[i][1] = k

\* dict(l)[k]: the last pair of the key wins
Lookup(l, k) ==
    LET i == CHOOSE j \in 1..Len(l) :
                 l[j][1] = k /\ \A m \in (j+1)..Len(l) : l[m][1] # k
    IN  l[i][2]

\* the mandatory fields in the order the constructor checks them
MandatoryFields == <<"description", "asset", "bettingmarkets", "rules">>

\* LookupBettingMarketGroup.__init__ on authored data with the keys bmg_keys
\* and extra_data with the keys extra_keys: the identifier is formatted from
\* bmg["description"] before the merged mapping is checked
bmg_init(bmg_keys, extra_keys) ==
    LET merged  == extra_keys \cup bmg_keys
        missing == {i \in 1..Len(MandatoryFields) : MandatoryFields[i] \notin merged}
    IN  IF "description" \notin bmg_keys
        THEN [err |-> "KeyError", field |-> "description"]
        ELSE IF missing # {}
        THEN [err |-> "MissingMandatoryValue",
              field |-> MandatoryFields[CHOOSE i \in missing :
                                          \A j \in missing : i <= j]]
        ELSE [err |-> "", field |-> ""]

\* LookupBettingMarketGroup.set_overunder
set_overunder(e, ou) == [e EXCEPT !.overunder = ou]

\* LookupBettingMarketGroup.set_handicaps
set_handicaps(e, home, away) ==
    LET home1 == IF TruthyNum(away) /\ ~TruthyNum(home)
                 THEN SomeInt(-PyInt(away[1])) ELSE home
        away1 == IF ~TruthyNum(away) /\ TruthyNum(home1)
                 THEN SomeInt(-PyInt(home1[1])) ELSE away
    IN  [e EXCEPT !.handicaps = <<home1, away1>>]

(***************************************************************************)
(* Remote records.  keys is the set of keys the mapping contains; the      *)
(* other fields hold the values of the keys that are present.              *)
(***************************************************************************)
UpdateKeys == {"betting_market_group_id", "new_description",
               "new_event_id", "new_rules_id"}

CreateKeys == {"description", "event_id", "rules_id"}

\* ist.get("description", ist.get("new_description"))
GetDescription(ist) ==
    IF "description" \in ist.keys THEN Some(ist.description)
    ELSE IF "new_description" \in ist.keys THEN Some(ist.new_description)
    ELSE None

\* ist.get("event_id", ist.get("new_event_id"))
GetEventId(ist) ==
    IF "event_id" \in ist.keys THEN Some(ist.event_id)
    ELSE IF "new_event_id" \in ist.keys THEN Some(ist.new_event_id)
    ELSE None

\* ist.get("status"); the empty string stands for an absent status
GetStatus(ist) == IF "status" \in ist.keys THEN ist.status ELSE ""

\* str.lower on a discriminator text
Lower(t) == CASE t.s = "OU" -> [t EXCEPT !.s = "ou"]
              [] t.s = "HC" -> [t EXCEPT !.s = "hc"]
              [] OTHER -> t

(***************************************************************************)
(* Identity comparators: each maps (soll, ist) to a result                 *)
(***************************************************************************)
\* in_range with exclusive bounds
in_range_strict(x, center, spread) ==
    IF ~IsNumeric(x) \/ ~IsNumeric(center) THEN "ValueError"
    ELSE IF PyFloat(x) > PyFloat(center) - spread
            /\ PyFloat(x) < PyFloat(center) + spread
         THEN "True" ELSE "False"

\* in_range of cmp_fuzzy: float() of both texts, then the inclusive range
in_range(x, center, spread) ==
    IF ~IsNumeric(x) \/ ~IsNumeric(center) THEN "ValueError"
    ELSE IF PyFloat(x) >= PyFloat(center) - spread
            /\ PyFloat(x) <= PyFloat(center) + spread
         THEN "True" ELSE "False"

cmp_fuzzy(spread, soll, ist) ==
    LET sd == description(soll)
        d  == ist.description
    IN  IF "description" \notin ist.keys THEN "KeyError"
        ELSE IF ~HasKey(d, "_dynamic") THEN "False"
        ELSE IF ~HasKey(sd, "_dynamic") THEN "KeyError"
        ELSE IF Lower(Lookup(sd, "_dynamic")) # Lookup(d, "_dynamic") THEN "False"
        ELSE IF Lower(Lookup(sd, "_dynamic")).s = "hc"
        THEN IF ~(HasKey(sd, "_hca") /\ HasKey(sd, "_hch")
                  /\ HasKey(d, "_hca") /\ HasKey(d, "_hch"))
             THEN "AssertionError"
             ELSE LET h == in_range(Lookup(d, "_hch"), Lookup(sd, "_hch"), spread)
                      a == in_range(Lookup(d, "_hca"), Lookup(sd, "_hca"), spread)
                  IN  IF IsError(h) THEN h
                      ELSE IF h = "False" THEN "None"
                      ELSE IF IsError(a) THEN a
                      ELSE IF a = "True" THEN "True" ELSE "None"
        ELSE IF Lower(Lookup(sd, "_dynamic")).s = "ou"
        THEN IF ~(HasKey(sd, "_ou") /\ HasKey(d, "_ou"))
             THEN "AssertionError"
             ELSE in_range(Lookup(d, "_ou"), Lookup(sd, "_ou"), spread)
        ELSE "RuntimeError"

cmp_function(key, soll, ist) ==
    LET sd == description(soll)
    IN  IF ~HasKey(sd, key) THEN "KeyError"
        ELSE IF "description" \notin ist.keys THEN "KeyError"
        ELSE IF InList(<<key, Lookup(sd, key)>>, ist.description)
             THEN "True" ELSE "False"

\* cmp_all_description testing only that the remote holds the local pairs
cmp_all_description_subset(soll, ist) ==
    LET lookupdescr == description(soll)
        chainsdescr == GetDescription(ist)
    IN  IF chainsdescr = None \/ chainsdescr[1] = <<>> \/ lookupdescr = <<>>
        THEN "False"
        ELSE IF \A i \in 1..Len(lookupdescr) : InList(lookupdescr[i], chainsdescr[1])
             THEN "True" ELSE "False"

cmp_all_description(soll, ist) ==
    LET lookupdescr == description(soll)
        chainsdescr == GetDescription(ist)
    IN  IF chainsdescr = None \/ chainsdescr[1] = <<>> \/ lookupdescr = <<>>
        THEN "False"
        ELSE IF (\A i \in 1..Len(lookupdescr) : InList(lookupdescr[i], chainsdescr[1]))
                /\ (\A j \in 1..Len(chainsdescr[1]) : InList(chainsdescr[1][j], lookupdescr))
             THEN "True" ELSE "False"

is_update(ist) == \E x \in UpdateKeys : x \in ist.keys

is_create(ist) == \E x \in CreateKeys : x \in ist.keys

\* cmp_required_keys reporting a shapeless record as a non-match
cmp_required_keys_noraise(soll, ist) ==
    IF is_update(ist) \/ is_create(ist) THEN "True" ELSE "False"

cmp_required_keys(soll, ist) ==
    IF ~is_update(ist) /\ ~is_create(ist) THEN "ValueError"
    ELSE IF is_update(ist) \/ is_create(ist) THEN "True" ELSE "False"

cmp_status(soll, ist) ==
    IF soll.status = "" \/ GetStatus(ist) = soll.status THEN "True" ELSE "False"

\* cmp_event without the pass for an unverifiable event id
cmp_event_strict(soll, ist) ==
    IF GetEventId(ist) = soll.event_id THEN "True" ELSE "False"

\* cmp_event treating every remote event id as unverifiable
cmp_event_unverified(soll, ist) == "True"

cmp_event(soll, ist) ==
    LET event_id   == GetEventId(ist)
        test_event == valid_event_id(event_id)
    IN  IF ~test_event \/ event_id = soll.event_id THEN "True" ELSE "False"

\* A comparator closure is a record naming the comparator and its bound
\* parameters
Cmp(name, key, spread) == [name |-> name, key |-> key, spread |-> spread]

Apply(f, soll, ist) ==
    CASE f.name = "cmp_required_keys"   -> cmp_required_keys(soll, ist)
      [] f.name = "cmp_status"          -> cmp_status(soll, ist)
      [] f.name = "cmp_event"           -> cmp_event(soll, ist)
      [] f.name = "cmp_all_description" -> cmp_all_description(soll, ist)
      [] f.name = "cmp_function"        -> cmp_function(f.key, soll, ist)
      [] f.name = "cmp_fuzzy"           -> cmp_fuzzy(f.spread, soll, ist)

\* all(r) for the list r of comparator outcomes, where a raise ends the
\* list: ran is the number of comparators that ran, all of them or those up
\* to and including the first that raises
ListOutcome(r) ==
    LET e == {i \in 1..Len(r) : IsError(r[i])}
        k == IF e = {} THEN Len(r) ELSE CHOOSE i \in e : \A j \in e : i <= j
    IN  [ret |-> IF e # {} THEN r[k]
                 ELSE IF \A i \in 1..Len(r) : r[i] = "True" THEN "True"
                 ELSE "False",
         ran |-> k]

\* the list comprehension [func(self, bmg) for func in search] under all():
\* the list is built first, so no comparator is skipped because an earlier
\* one returned False, and the first raise aborts the list and propagates
RunAll(search, soll, ist) ==
    ListOutcome([i \in 1..Len(search) |-> Apply(search[i], soll, ist)])

\* all([func(self, bmg) for func in search])
AllOf(search, soll, ist) == RunAll(search, soll, ist).ret

DefaultEqualSearch == << Cmp("cmp_required_keys", "", 0), Cmp("cmp_status", "", 0),
                         Cmp("cmp_event", "", 0), Cmp("cmp_all_description", "", 0) >>

DefaultFindSearch == << Cmp("cmp_function", "en", 0) >>

(***************************************************************************)
(* Reconciliation engine                                                   *)
(***************************************************************************)
\* The keyword argument "proposal": kind is "absent" (not passed), "empty"
\* (passed but falsy) or "full".  ops[i+1] is operation i of
\* proposed_transaction.operations, reduced to the only thing read from it:
\* whether the parent event's test_operation_equal accepts its payload.
NoProposal == [kind |-> "absent", ops |-> <<>>]

\* the outcome of test_operation_equal once the comparators have run; calls
\* lists, in order, the checks that were run
EqualOutcome(deref, run, search) ==
    [ret   |-> run.ret,
     calls |-> (IF deref THEN <<"parent.test_operation_equal">> ELSE <<>>)
               \o [i \in 1..run.ran |-> search[i].name]]

\* test_operation_equal without the dereference of the pending proposal
test_operation_equal_noderef(soll, ist, search, proposal) ==
    EqualOutcome(FALSE, RunAll(search, soll, ist), search)

\* LookupBettingMarketGroup.test_operation_equal
test_operation_equal(soll, ist, search, proposal) ==
    LET event_id   == GetEventId(ist)
        test_event == valid_event_id(event_id)
        deref      == event_id # None /\ ~test_event /\ event_id[1][1] = 0
                      /\ proposal.kind # "absent" /\ proposal.kind = "full"
        operation_id == event_id[1][3]
    IN  IF deref /\ operation_id >= Len(proposal.ops)
        THEN [ret |-> "IndexError", calls |-> <<>>]
        ELSE IF deref /\ ~proposal.ops[operation_id + 1]
        THEN [ret |-> "False", calls |-> <<"parent.test_operation_equal">>]
        ELSE EqualOutcome(deref, RunAll(search, soll, ist), search)

\* LookupBettingMarketGroup.is_synced: id is the entity's "id" entry (None
\* when the key is absent or falsy) and obj the ledger object
\* BettingMarketGroup(id) fetches
bmg_is_synced(soll, id, obj) ==
    IF id = None THEN "False"
    ELSE test_operation_equal(soll, obj, DefaultEqualSearch, NoProposal).ret

\* the operation LookupBettingMarketGroup.propose_new / propose_update hands
\* to the ledger client for the proposal buffer, recorded by its type
\* (operation_create / operation_update) and the parent event id
GroupOp(type, soll) == [op |-> type, event_id |-> soll.event_id]

\* the rules property: assert self["rules"] in self.sport["rules"]; sport
\* is the list of rules of the parent's sport
rules(soll, sport) ==
    IF soll.rules \in sport THEN "" ELSE "AssertionError"

\* LookupBettingMarketGroup.propose_new: rules_id=self.rules.id is evaluated
\* as an argument, so a failing assertion raises before the ledger client
\* is called and the buffer is left alone
bmg_propose_new(soll, sport, buffer) ==
    IF rules(soll, sport) # ""
    THEN [err |-> rules(soll, sport), buffer |-> buffer]
    ELSE [err |-> "",
          buffer |-> Append(buffer, GroupOp("betting_market_group_create", soll))]

\* LookupBettingMarketGroup.propose_update
bmg_propose_update(soll, sport, buffer) ==
    IF rules(soll, sport) # ""
    THEN [err |-> rules(soll, sport), buffer |-> buffer]
    ELSE [err |-> "",
          buffer |-> Append(buffer, GroupOp("betting_market_group_update", soll))]

\* the scan of find_id from candidate i on
RECURSIVE find_id_scan(_, _, _, _)
find_id_scan(soll, bmgs, search, i) ==
    IF i > Len(bmgs) THEN [ret |-> None, err |-> "", scanned |-> Len(bmgs)]
    ELSE LET r == AllOf(search, soll, bmgs[i])
         IN  IF IsError(r) THEN [ret |-> None, err |-> r, scanned |-> i]
             ELSE IF r = "True"
             THEN IF "id" \in bmgs[i].keys
                  THEN [ret |-> Some(bmgs[i].id), err |-> "", scanned |-> i]
                  ELSE [ret |-> None, err |-> "KeyError", scanned |-> i]
             ELSE find_id_scan(soll, bmgs, search, i + 1)

\* find_id scanning although the parent has no valid id
find_id_unchecked(soll, bmgs, search) == find_id_scan(soll, bmgs, search, 1)

\* LookupBettingMarketGroup.find_id; bmgs is BettingMarketGroups(parent.id)
find_id(soll, bmgs, search) ==
    IF ~valid_object_id(soll.event_id)
    THEN [ret |-> None, err |-> "", scanned |-> 0]
    ELSE find_id_scan(soll, bmgs, search, 1)

(***************************************************************************)
(* Grading engine.  A Python value produced by eval is the fixed-point     *)
(* number it counts as in sum(): True is 1 (Q quarters), False is 0.       *)
(***************************************************************************)
PyTrue == Q

PyFalse == 0

PyBool(b) == IF b THEN PyTrue ELSE PyFalse

\* the grading defaults of the constructor: handicaps or [0, 0]
DefaultHandicaps == <<0, 0>>

\* Handicaps.home_score in substitute_metric, as the code computes it
home_score(handicaps) ==
    IF PyInt(handicaps[2]) >= 0 THEN PyInt(handicaps[2]) ELSE 0

\* Handicaps.away_score in substitute_metric, as the code computes it
away_score(handicaps) ==
    IF PyInt(handicaps[1]) >= 0 THEN PyInt(handicaps[1]) ELSE 0

\* LookupBettingMarketGroupResolve.grading: the rules property asserts
\* self["rules"] in self.sport["rules"] before the rule is read from the
\* ledger; rule is the grading the ledger holds for the entity's rule, sport
\* the list of rules of the parent's sport
grading(e, sport, rule) ==
    IF e.rules \in sport THEN [err |-> "", rule |-> rule]
    ELSE [err |-> "AssertionError", rule |-> rule]

\* substitute_metric followed by eval in LookupBettingMarketGroupResolve.metric:
\* the metric templates "{result.total}",
\* "{result.hometeam} - {result.awayteam}", "{handicaps.home_score}" and
\* "{handicaps.away_score}"; "nonstr" is a template that is not a string
\* (scheme.format does not exist) and "bad" a template whose substitution
\* does not evaluate
metric_value(tmpl, result, handicaps) ==
    CASE tmpl = "total"      -> [err |-> "", v |-> result[1] + result[2]]
      [] tmpl = "diff"       -> [err |-> "", v |-> result[1] - result[2]]
      [] tmpl = "home_score" -> [err |-> "", v |-> home_score(handicaps)]
      [] tmpl = "away_score" -> [err |-> "", v |-> away_score(handicaps)]
      [] tmpl = "nonstr"     -> [err |-> "AttributeError", v |-> 0]
      [] OTHER               -> [err |-> "Exception", v |-> 0]

\* LookupBettingMarketGroupResolve.metric: self.grading is read first
\* (_metric), so a rule the sport does not list raises before the template
\* is substituted
metric(e, sport, rule, result, handicaps) ==
    IF grading(e, sport, rule).err # ""
    THEN [err |-> grading(e, sport, rule).err, v |-> 0]
    ELSE metric_value(grading(e, sport, rule).rule.metric, result, handicaps)

\* eval of an outcome expression after {metric} is substituted.  An
\* expression is [op, c]: "{metric} op c" for the comparison operators,
\* the literals "True"/"False", the arithmetic "{metric} - c" ("minus")
\* and "c - {metric}" ("rminus"), and "bad" for text that does not evaluate.
EvalExpr(e, m) ==
    CASE e.op = ">"      -> PyBool(m > e.c)
      [] e.op = "<="     -> PyBool(m <= e.c)
      [] e.op = "<"      -> PyBool(m < e.c)
      [] e.op = ">="     -> PyBool(m >= e.c)
      [] e.op = "=="     -> PyBool(m = e.c)
      [] e.op = "!="     -> PyBool(m # e.c)
      [] e.op = "True"   -> PyTrue
      [] e.op = "False"  -> PyFalse
      [] e.op = "minus"  -> m - e.c
      [] e.op = "rminus" -> e.c - m
      [] OTHER           -> 0

\* LookupBettingMarketGroupResolve.evaluate_metric
evaluate_metric(e, m) ==
    IF e.op = "nonstr" THEN [err |-> "ValueError", v |-> 0]
    ELSE IF m.err # "" THEN [err |-> m.err, v |-> 0]
    ELSE IF e.op = "bad" THEN [err |-> "Exception", v |-> 0]
    ELSE [err |-> "", v |-> EvalExpr(e, m.v)]

RECURSIVE SumSeq(_)
SumSeq(s) == IF s = <<>> THEN 0 ELSE Head(s) + SumSeq(Tail(s))

\* the list comprehension keeping the labels whose value is false
RECURSIVE TruePairsNegated(_, _, _)
TruePairsNegated(id, market, resolved) ==
    IF market = <<>> THEN <<>>
    ELSE (IF Head(resolved).v = 0 THEN << <<id, Head(market)[1]>> >> ELSE <<>>)
         \o TruePairsNegated(id, Tail(market), Tail(resolved))

\* [[bettingmarket.id, key] for key, value in resolved.items() if value]
RECURSIVE TruePairs(_, _, _)
TruePairs(id, market, resolved) ==
    IF market = <<>> THEN <<>>
    ELSE (IF Head(resolved).v # 0 THEN << <<id, Head(market)[1]>> >> ELSE <<>>)
         \o TruePairs(id, Tail(market), Tail(resolved))

\* the count check at the end of the bettingmarkets generator
count_mismatch(e) == Len(e.bettingmarkets) # e.number_betting_markets

\* the k-th next() on the generator LookupBettingMarketGroup.bettingmarkets:
\* a leg while the authored list lasts; past its end the generator body
\* runs the count check, logs the diagnostic on a mismatch, and stops
bettingmarkets_next(e, k) ==
    IF k <= Len(e.bettingmarkets)
    THEN [stop |-> FALSE, leg |-> e.bettingmarkets[k], critical |-> FALSE]
    ELSE [stop |-> TRUE, leg |-> 0, critical |-> count_mismatch(e)]

\* list(bmg.bettingmarkets): the generator driven to exhaustion
bettingmarkets_all(e) ==
    [ret |-> e.bettingmarkets,
     critical |-> bettingmarkets_next(e, Len(e.bettingmarkets) + 1).critical]

\* LookupBettingMarketGroupResolve.__init__: the shape assertion on result
\* and the default of handicaps
resolve_init(result, handicaps) ==
    IF Len(result) # 2
    THEN [err |-> "AssertionError", result |-> <<>>, handicaps |-> <<>>]
    ELSE [err |-> "", result |-> result,
          handicaps |-> IF handicaps = <<>> THEN DefaultHandicaps ELSE handicaps]

\* the loop of LookupBettingMarketGroupResolve.resolutions from outcome-group
\* i on; e is the parent market-group whose bettingmarkets generator is
\* pulled once per group, and ret the list built so far
RECURSIVE resolutions_loop(_, _, _, _, _)
resolutions_loop(rule, e, m, i, ret) ==
    IF i > Len(rule.resolutions)
    THEN [ret |-> ret, err |-> "", critical |-> FALSE]
    ELSE LET nxt == bettingmarkets_next(e, i) IN
         IF nxt.stop
         THEN [ret |-> <<>>, err |-> "StopIteration", critical |-> nxt.critical]
         ELSE
         LET market   == rule.resolutions[i]
             resolved == [k \in 1..Len(market) |-> evaluate_metric(market[k][2], m)]
             values   == [k \in 1..Len(market) |-> resolved[k].v]
         IN  IF \E k \in 1..Len(market) : resolved[k].err # ""
             THEN [ret |-> <<>>,
                   err |-> resolved[CHOOSE k \in 1..Len(market) :
                                      resolved[k].err # ""
                                      /\ \A j \in 1..(k-1) : resolved[j].err = ""].err,
                   critical |-> FALSE]
             ELSE IF SumSeq(values) # PyTrue
             THEN [ret |-> <<>>, err |-> "AssertionError", critical |-> FALSE]
             ELSE resolutions_loop(rule, e, m, i + 1,
                                   ret \o TruePairs(nxt.leg, market, resolved))

\* LookupBettingMarketGroupResolve.resolutions of a resolve object built from
\* the market-group e with the given result and handicaps; self.grading is
\* read before the first leg is pulled
resolutions(e, sport, rule, result, handicaps) ==
    IF grading(e, sport, rule).err # ""
    THEN [ret |-> <<>>, err |-> grading(e, sport, rule).err, critical |-> FALSE]
    ELSE resolutions_loop(grading(e, sport, rule).rule, e,
                          metric(e, sport, rule, result, handicaps), 1, <<>>)

\* the operation peerplays.betting_market_resolve(bmg_id, resolutions, ...)
\* builds
ResolveOp(bmg_id, result) ==
    [op |-> "betting_market_group_resolve", betting_market_group_id |-> bmg_id,
     resolutions |-> result]

\* LookupBettingMarketGroupResolve.propose_new: the resolutions property is
\* evaluated as an argument, so a raise leaves the buffer alone; otherwise
\* the operation is appended to Lookup.proposal_buffer
propose_new(e, sport, rule, result, handicaps, bmg_id, buffer) ==
    LET res == resolutions(e, sport, rule, result, handicaps)
    IN  IF res.err # "" THEN [err |-> res.err, buffer |-> buffer]
        ELSE [err |-> "", buffer |-> Append(buffer, ResolveOp(bmg_id, res.ret))]

\* an is_synced that looks the resolution up among the proposed operations
is_synced_buffered(e, sport, rule, result, handicaps, buffer) ==
    IF \E i \in 1..Len(buffer) :
          buffer[i].resolutions = resolutions(e, sport, rule, result, handicaps).ret
    THEN "True" ELSE "False"

\* LookupBettingMarketGroupResolve.is_synced
is_synced(e, sport, rule, result, handicaps, buffer) == "False"

\* LookupBettingMarketGroupResolve.find_id
find_id_resolve(e, sport, rule, result, handicaps, buffer) == "None"

(***************************************************************************)
(* Inputs                                                                  *)
(***************************************************************************)
Half == Q \div 2

\* raw thresholds given to set_overunder: 0, 3.25, 3.5, 4.5
OverUnders == {Some(0), Some(3 * Q + 1), Some(3 * Q + Half), Some(4 * Q + Half)}

\* arguments of set_handicaps
Homes == {None, Some(0), Some(Q), SomeInt(Q), Some(Q + Half)}

Aways == {None, Some(-Q)}

\* tolerances given to cmp_fuzzy: 0, 0.25, 1
Spreads == {0, 1, Q}

ParentEvent == <<1, 18, 1>>

\* a market-group as constructed from the authored data
NewBmg(tmpl, status, event_id) ==
    [tmpl |-> tmpl, status |-> status, event_id |-> event_id,
     overunder |-> None, handicaps |-> None,
     bettingmarkets |-> <<2962, 2963>>, number_betting_markets |-> 2,
     rules |-> "R1"]

\* descriptions found on the ledger: those this program generates for
\* over/under and handicap market-groups, and hand-made ones
OuDescription(t) == description(set_overunder(NewBmg("ou", "", None), Some(t)))

HcDescription(h) == description(set_handicaps(NewBmg("hc", "", None), Some(h), None))

PlainDescription == description(NewBmg("plain", "", None))

FakeDescription ==
    << <<"en", Text("Over/Under {overunder.value} pts", 3 * Q + Half, 0)>>,
       <<"sen", Text("Total Points", 0, 0)>>,
       <<"_dynamic", Text("FAKE", 0, 0)>>, <<"_ou", Text("FAKE", 0, 0)>> >>

\* the pairs of a description in the opposite order
Reversed(d) == [i \in 1..Len(d) |-> d[Len(d) + 1 - i]]

\* a description with one more language
WithGerman(d) == d \o << <<"de", Text("Gesamtpunkte", 0, 0)>> >>

RemoteDescriptionList ==
    << OuDescription(3 * Q + Half), OuDescription(3 * Q + 1), OuDescription(4 * Q + Half),
       HcDescription(Q), HcDescription(Q + Half), PlainDescription, FakeDescription,
       Reversed(OuDescription(3 * Q + Half)), WithGerman(OuDescription(3 * Q + Half)),
       <<>> >>

Record(keys, id, d, ev, st) ==
    [keys |-> keys, id |-> id, description |-> d, new_description |-> d,
     event_id |-> ev, new_event_id |-> ev, status |-> st]

\* a committed market-group object
Committed(id, d, ev, st) ==
    Record({"id", "description", "event_id", "rules_id", "asset_id", "status"},
           id, d, ev, st)

\* the payload of a betting_market_group_update operation
UpdateOp(d, ev, st) ==
    Record({"betting_market_group_id", "new_description", "new_event_id",
            "new_rules_id", "status"}, <<1, 20, 0>>, d, ev, st)

\* a mapping with only the given keys
Partial(keys, d) == Record(keys, <<1, 20, 0>>, d, ParentEvent, "ongoing")

\* the committed object holding description number i
Object(i) == Committed(<<1, 20, 210 + i>>, RemoteDescriptionList[i], ParentEvent, "ongoing")

CommittedRecords ==
    {Object(i) : i \in 1..Len(RemoteDescriptionList)}
    \cup {Committed(<<1, 20, 218>>, OuDescription(3 * Q + Half), ev, st) :
            ev \in EventIds \cup ProposalRefs \cup UnknownIds,
            st \in {"ongoing", "upcoming"}}

MalformedRecords ==
    {Partial(ks, OuDescription(3 * Q + Half)) :
        ks \in {{}, {"id"}, {"id", "status"}, {"description"},
                {"id", "rules_id"}, {"new_event_id"}}}

RemoteRecords ==
    CommittedRecords
    \cup {UpdateOp(d, ev, "ongoing") :
            d \in {OuDescription(3 * Q + Half), HcDescription(Q)},
            ev \in {ParentEvent, <<0, 0, 1>>}}
    \cup MalformedRecords

\* the market-groups the ledger lists for the parent event
Candidates ==
    {Object(i) : i \in {1, 3, 4, 6}}
    \cup {Partial({"id"}, PlainDescription),
          Partial({"description"}, OuDescription(3 * Q + Half))}

CandidateLists == UNION {[1..n -> Candidates] : n \in 0..MaxCands}

FindSearches == {DefaultFindSearch, << Cmp("cmp_fuzzy", "", 0) >>,
                 << Cmp("cmp_function", "en", 0), Cmp("cmp_fuzzy", "", Q) >>}

EqualSearches == {DefaultEqualSearch, << Cmp("cmp_all_description", "", 0) >>,
                  << Cmp("cmp_status", "", 0), Cmp("cmp_fuzzy", "", Q) >>}

Proposals == {NoProposal, [kind |-> "empty", ops |-> <<>>]}
             \cup {[kind |-> "full", ops |-> o] :
                     o \in {<<TRUE>>, <<FALSE>>, <<TRUE, FALSE>>, <<FALSE, TRUE>>}}

Comparators ==
    {Cmp("cmp_required_keys", "", 0), Cmp("cmp_status", "", 0),
     Cmp("cmp_event", "", 0), Cmp("cmp_all_description", "", 0),
     Cmp("cmp_function", "en", 0)}
    \cup {Cmp("cmp_fuzzy", "", sp) : sp \in Spreads}

(***************************************************************************)
(* The reconciliation state machine.  bmg is the local market-group; last  *)
(* is the call the caller made last, with its arguments and its outcome,   *)
(* or [op |-> "idle"] once the caller has consumed it.                     *)
(***************************************************************************)
Idle == [op |-> "idle"]

Init ==
    /\ bmg \in {NewBmg(tmpl, status, ev) :
                  tmpl \in {"ou", "hc", "plain"}, status \in {"", "ongoing"},
                  ev \in {Some(ParentEvent), None}}
    /\ last = Idle
    /\ proposal_buffer = <<>>

\* keys of the authored data and of extra_data
AuthoredKeys == {"description", "asset", "bettingmarkets", "rules", "dynamic"}

ExtraKeys == {"description", "asset"}

\* LookupBettingMarketGroup(bmg, event, extra_data): on success the caller
\* holds a freshly constructed entity
Construct ==
    /\ last = Idle
    /\ \E bmg_keys \in SUBSET AuthoredKeys, extra_keys \in SUBSET ExtraKeys :
         LET res == bmg_init(bmg_keys, extra_keys)
         IN  /\ last' = [op |-> "init", bmg_keys |-> bmg_keys,
                         extra_keys |-> extra_keys, res |-> res]
             /\ bmg' = IF res.err = ""
                       THEN NewBmg(bmg.tmpl, bmg.status, bmg.event_id)
                       ELSE bmg
    /\ UNCHANGED proposal_buffer

SetOverunder ==
    /\ last = Idle
    /\ \E ou \in OverUnders :
         /\ bmg' = set_overunder(bmg, ou)
         /\ last' = [op |-> "set_overunder", ou |-> ou]
    /\ UNCHANGED proposal_buffer

SetHandicaps ==
    /\ last = Idle
    /\ \E home \in Homes, away \in Aways :
         /\ bmg' = set_handicaps(bmg, home, away)
         /\ last' = [op |-> "set_handicaps", home |-> home, away |-> away]
    /\ UNCHANGED proposal_buffer

Description ==
    /\ last = Idle
    /\ last' = [op |-> "description", ret |-> description(bmg)]
    /\ UNCHANGED <<bmg, proposal_buffer>>

Compare ==
    /\ last = Idle
    /\ \E f \in Comparators, ist \in RemoteRecords :
         last' = [op |-> "cmp", f |-> f, ist |-> ist, ret |-> Apply(f, bmg, ist)]
    /\ UNCHANGED <<bmg, proposal_buffer>>

TestOperationEqual ==
    /\ last = Idle
    /\ \E ist \in RemoteRecords, search \in EqualSearches, proposal \in Proposals :
         last' = [op |-> "test_operation_equal", ist |-> ist, search |-> search,
                  proposal |-> proposal,
                  res |-> test_operation_equal(bmg, ist, search, proposal)]
    /\ UNCHANGED <<bmg, proposal_buffer>>

\* test_operation_equal on a synthetic record wrapping the entity's own
\* description, with or without the entity's status copied into it
TestOwnDescription ==
    /\ last = Idle
    /\ \E with_status \in BOOLEAN :
         LET ist == Record(IF with_status THEN {"description", "status"}
                                          ELSE {"description"},
                           <<1, 20, 0>>, description(bmg), ParentEvent, bmg.status)
         IN  last' = [op |-> "test_own_description", ist |-> ist,
                      with_status |-> with_status,
                      res |-> test_operation_equal(bmg, ist, DefaultEqualSearch,
                                                   NoProposal)]
    /\ UNCHANGED <<bmg, proposal_buffer>>

FindId ==
    /\ last = Idle
    /\ \E bmgs \in CandidateLists, search \in FindSearches :
         last' = [op |-> "find_id", bmgs |-> bmgs, search |-> search,
                  res |-> find_id(bmg, bmgs, search)]
    /\ UNCHANGED <<bmg, proposal_buffer>>

\* is_synced after the caller has set (or not set) the entity's id
IsSyncedGroup ==
    /\ last = Idle
    /\ \E id \in {None, Some(<<1, 20, 0>>)}, obj \in CommittedRecords :
         last' = [op |-> "bmg_is_synced", id |-> id, obj |-> obj,
                  ret |-> bmg_is_synced(bmg, id, obj)]
    /\ UNCHANGED <<bmg, proposal_buffer>>

\* the rules the parent's sport may list
SportRules == {{"R1"}, {"R1", "R2"}, {"R2"}, {}}

\* propose_new; the bound applies to the calls that append, a call that
\* raises leaves the buffer as it is
ProposeNewGroup ==
    /\ last = Idle
    /\ \E sport \in SportRules :
         /\ rules(bmg, sport) # "" \/ Len(proposal_buffer) < MaxGroupProposals
         /\ proposal_buffer' = bmg_propose_new(bmg, sport, proposal_buffer).buffer
         /\ last' = [op |-> "bmg_propose_new", sport |-> sport,
                     err |-> bmg_propose_new(bmg, sport, proposal_buffer).err]
    /\ UNCHANGED bmg

ProposeUpdateGroup ==
    /\ last = Idle
    /\ \E sport \in SportRules :
         /\ rules(bmg, sport) # "" \/ Len(proposal_buffer) < MaxGroupProposals
         /\ proposal_buffer' = bmg_propose_update(bmg, sport, proposal_buffer).buffer
         /\ last' = [op |-> "bmg_propose_update", sport |-> sport,
                     err |-> bmg_propose_update(bmg, sport, proposal_buffer).err]
    /\ UNCHANGED bmg

\* the caller takes the outcome and goes on
Return ==
    /\ last # Idle
    /\ last' = Idle
    /\ UNCHANGED <<bmg, proposal_buffer>>

Next ==
    \/ Construct
    \/ SetOverunder
    \/ SetHandicaps
    \/ Description
    \/ Compare
    \/ TestOperationEqual
    \/ TestOwnDescription
    \/ FindId
    \/ IsSyncedGroup
    \/ ProposeNewGroup
    \/ ProposeUpdateGroup
    \/ Return

Spec == Init /\ [][Next]_vars

(***************************************************************************)
(* The grading state machine                                               *)
(***************************************************************************)
Expr(op, c) == [op |-> op, c |-> c]

BoolOps == {">", "<=", "<", ">=", "==", "!=", "True", "False"}

Exprs ==
    {Expr(op, c) : op \in {">", "<="}, c \in {Q + Half, 3 * Q + Half}}
    \cup {Expr(op, 3 * Q + Half) : op \in {"<", ">="}}
    \cup {Expr(op, 0) : op \in {"==", "!=", "True", "False", "bad"}}
    \cup {Expr("minus", Q), Expr("rminus", 2 * Q)}

Group2(e1, e2) == << <<"win", e1>>, <<"not_win", e2>> >>

Group3(e1, e2) == << <<"win", e1>>, <<"not_win", e2>>, <<"void", Expr("False", 0)>> >>

\* the outcome-groups of the over/under rule on the 3.5 line
OverGroup == Group2(Expr(">", 3 * Q + Half), Expr("<=", 3 * Q + Half))

UnderGroup == Group2(Expr("<", 3 * Q + Half), Expr(">=", 3 * Q + Half))

Groups == {Group2(e1, e2) : e1 \in Exprs, e2 \in Exprs}

SecondGroups ==
    {UnderGroup, Group3(Expr("==", 0), Expr("!=", 0)),
     Group2(Expr("False", 0), Expr("False", 0)),
     Group2(Expr("minus", Q), Expr("rminus", 2 * Q)),
     Group2(Expr("nonstr", 0), Expr("True", 0))}

ResolutionLists ==
    {<<>>} \cup {<<g>> : g \in Groups \cup SecondGroups}
    \cup {<<g1, g2>> : g1 \in Groups, g2 \in SecondGroups}
    \cup {<<OverGroup, UnderGroup, g>> : g \in SecondGroups}

Gradings ==
    {[metric |-> mt, resolutions |-> r] :
        mt \in {"total", "diff", "bad", "nonstr"}, r \in ResolutionLists}

Scores == {k * Q : k \in 0..MaxScore}

Results == {<<h, a>> : h \in Scores, a \in Scores}

InitGrading ==
    /\ bmg \in {[NewBmg("ou", "", Some(ParentEvent)) EXCEPT !.bettingmarkets = legs] :
                  legs \in {<<2962>>, <<2962, 2963>>, <<2962, 2963, 2964>>}}
    /\ last = Idle
    /\ proposal_buffer = <<>>

Resolutions ==
    /\ last = Idle
    /\ \E sport \in SportRules, rule \in Gradings, result \in Results :
         last' = [op |-> "resolutions", sport |-> sport, grading |-> rule,
                  result |-> result,
                  handicaps |-> resolve_init(result, None).handicaps,
                  res |-> resolutions(bmg, sport, rule,
                                      resolve_init(result, None).result,
                                      resolve_init(result, None).handicaps)]
    /\ UNCHANGED <<bmg, proposal_buffer>>

\* results that are not a list of two elements
MalformedResults == {<<>>, <<Q>>, <<Q, 0, 0>>}

HandicapValues == {-(Q + Half), -Q, 0, Q, Q + Half}

\* handicaps arguments of the resolve constructor
HandicapPairs == {<<h, a>> : h \in HandicapValues, a \in HandicapValues}

MetricTemplates == {"total", "diff", "home_score", "away_score", "nonstr", "bad"}

\* LookupBettingMarketGroupResolve(bmg, result, handicaps)
ResolveInit ==
    /\ last = Idle
    /\ \E result \in Results \cup MalformedResults,
          handicaps \in {None} \cup HandicapPairs :
         last' = [op |-> "resolve_init", result |-> result,
                  handicaps |-> handicaps,
                  res |-> resolve_init(result, handicaps)]
    /\ UNCHANGED <<bmg, proposal_buffer>>

\* the metric property of a resolve object built with the given handicaps
Metric ==
    /\ last = Idle
    /\ \E sport \in SportRules, tmpl \in MetricTemplates, result \in Results,
          handicaps \in {None} \cup HandicapPairs :
         LET obj == resolve_init(result, handicaps)
         IN  last' = [op |-> "metric", sport |-> sport, tmpl |-> tmpl,
                      result |-> obj.result, handicaps |-> obj.handicaps,
                      res |-> metric(bmg, sport, [metric |-> tmpl, resolutions |-> <<>>],
                                     obj.result, obj.handicaps)]
    /\ UNCHANGED <<bmg, proposal_buffer>>

\* list(bmg.bettingmarkets)
Enumerate ==
    /\ last = Idle
    /\ last' = [op |-> "bettingmarkets", res |-> bettingmarkets_all(bmg)]
    /\ UNCHANGED <<bmg, proposal_buffer>>

\* the id of the parent market-group on the ledger
ParentBmgId == <<1, 20, 0>>

\* the rules resolve objects are proposed under
ResolveGradings ==
    {[metric |-> mt, resolutions |-> r] :
        mt \in {"total", "diff"},
        r \in {<<OverGroup>>, <<OverGroup, UnderGroup>>,
               <<Group2(Expr("False", 0), Expr("False", 0))>>}}

ProposeNew ==
    /\ last = Idle
    /\ \E sport \in SportRules, rule \in ResolveGradings, result \in Results :
         LET obj == resolve_init(result, None)
             res == propose_new(bmg, sport, rule, obj.result, obj.handicaps,
                                ParentBmgId, proposal_buffer)
         IN  /\ res.err # "" \/ Len(proposal_buffer) < MaxProposals
             /\ proposal_buffer' = res.buffer
             /\ last' = [op |-> "propose_new", sport |-> sport, grading |-> rule,
                         result |-> result, err |-> res.err]
    /\ UNCHANGED bmg

IsSynced ==
    /\ last = Idle
    /\ \E sport \in SportRules, rule \in ResolveGradings, result \in Results :
         LET obj == resolve_init(result, None)
         IN  last' = [op |-> "is_synced", sport |-> sport, grading |-> rule,
                      result |-> result,
                      ret |-> is_synced(bmg, sport, rule, obj.result, obj.handicaps,
                                        proposal_buffer)]
    /\ UNCHANGED <<bmg, proposal_buffer>>

FindIdResolve ==
    /\ last = Idle
    /\ \E sport \in SportRules, rule \in ResolveGradings, result \in Results :
         LET obj == resolve_init(result, None)
         IN  last' = [op |-> "find_id_resolve", sport |-> sport, grading |-> rule,
                      result |-> result,
                      ret |-> find_id_resolve(bmg, sport, rule, obj.result,
                                              obj.handicaps, proposal_buffer)]
    /\ UNCHANGED <<bmg, proposal_buffer>>

\* LookupBettingMarketGroupResolve.propose_update: nothing is proposed
ProposeUpdate ==
    /\ last = Idle
    /\ last' = [op |-> "propose_update", ret |-> "None"]
    /\ UNCHANGED <<bmg, proposal_buffer>>

NextResolve ==
    \/ ProposeNew
    \/ IsSynced
    \/ FindIdResolve
    \/ ProposeUpdate
    \/ Return

ResolveSyncSpec == InitGrading /\ [][NextResolve]_vars

NextGrading ==
    \/ Resolutions
    \/ ResolveInit
    \/ Metric
    \/ Enumerate
    \/ Return

GradingSpec == InitGrading /\ [][NextGrading]_vars

(***************************************************************************)
(* Properties of the grading engine (checked under GradingSpec)            *)
(***************************************************************************)
IsResolutions == last.op = "resolutions"

\* the entity's rule is one its sport lists, so that a grading rule is read
RuleListed == bmg.rules \in last.sport

\* the value of the metric of the rule of the last call
MetricOf(l) == metric_value(l.grading.metric, l.result, l.handicaps)

\* the labels of an outcome-group whose expression evaluates to a true value
TrueLabels(market, m) ==
    {k \in 1..Len(market) :
        /\ market[k][2].op \notin {"bad", "nonstr"}
        /\ EvalExpr(market[k][2], m) # 0}

\* the pairs of a returned list that carry the given leg id
PairsOfLeg(ret, id) == {k \in 1..Len(ret) : ret[k][1] = id}

\* C1: resolutions aborts with an error and returns no list whenever some
\* outcome-group has zero or more than one label whose expression
\* evaluates to a true value; a returned list never holds zero or several
\* labels for the leg of an outcome-group.
C1_ExactlyOneTrueOrAbort ==
    IsResolutions =>
      LET groups == last.grading.resolutions
          m      == MetricOf(last)
      IN  /\ (m.err = "" /\ \E i \in 1..Len(groups) :
                               Cardinality(TrueLabels(groups[i], m.v)) # 1)
                => (last.res.err # "" /\ last.res.ret = <<>>)
          /\ last.res.err = ""
                => \A i \in 1..Len(groups) :
                      Cardinality(PairsOfLeg(last.res.ret, bmg.bettingmarkets[i])) = 1

\* a well-formed rule for the legs and the result at hand: the metric
\* evaluates, every outcome expression is a boolean expression, every
\* outcome-group has exactly one true label, one group per leg
WellFormed(rule, markets, result) ==
    LET m == metric_value(rule.metric, result, DefaultHandicaps)
    IN  /\ m.err = ""
        /\ Len(rule.resolutions) = Len(markets)
        /\ \A i \in 1..Len(rule.resolutions) :
              /\ \A k \in 1..Len(rule.resolutions[i]) :
                    rule.resolutions[i][k][2].op \in BoolOps
              /\ Cardinality(TrueLabels(rule.resolutions[i], m.v)) = 1

OverUnderRule == [metric |-> "total", resolutions |-> <<OverGroup, UnderGroup>>]

IsFindId == last.op = "find_id"

\* every comparator of the set is true of the candidate
Matches(search, ist) == \A k \in 1..Len(search) : Apply(search[k], bmg, ist) = "True"

\* some comparator of the set raises on the candidate
Raises(search, ist) == \E k \in 1..Len(search) : IsError(Apply(search[k], bmg, ist))

\* C3: find_id returns None without raising and without scanning when the
\* parent event's id is not a valid ledger id; otherwise, on candidates that
\* carry an id and on which no comparator raises (the objects a ledger
\* lists), it scans in the given order and returns the
\* id of the first candidate all comparators are true of, and None without
\* raising when the collection is empty or no candidate matches.
C3_FindIdFirstMatch ==
    IsFindId =>
      LET bmgs   == last.bmgs
          search == last.search
          r      == last.res
          hits   == {i \in 1..Len(bmgs) : Matches(search, bmgs[i])}
      IN  /\ ~valid_object_id(bmg.event_id)
                => (r.ret = None /\ r.err = "" /\ r.scanned = 0)
          /\ (valid_object_id(bmg.event_id)
              /\ \A i \in 1..Len(bmgs) :
                    "id" \in bmgs[i].keys /\ ~Raises(search, bmgs[i]))
                => /\ r.err = ""
                   /\ hits = {} => (r.ret = None /\ r.scanned = Len(bmgs))
                   /\ hits # {} =>
                        \E i \in hits :
                           /\ \A j \in hits : i <= j
                           /\ r.ret = Some(bmgs[i].id)
                           /\ r.scanned = i

\* two candidates match and the first of them is not the first candidate
C3_Witness ==
    /\ IsFindId
    /\ valid_object_id(bmg.event_id)
    /\ Len(last.bmgs) = 2
    /\ ~Matches(last.search, last.bmgs[1]) /\ ~Raises(last.search, last.bmgs[1])
    /\ Matches(last.search, last.bmgs[2])
    /\ last.res.ret = Some(last.bmgs[2].id)

\* two different candidates match: the first one is returned
C3_WitnessTwoHits ==
    /\ IsFindId
    /\ Len(last.bmgs) = 2
    /\ last.bmgs[1].id # last.bmgs[2].id
    /\ Matches(last.search, last.bmgs[1]) /\ Matches(last.search, last.bmgs[2])
    /\ last.res.ret = Some(last.bmgs[1].id)

\* a record with none of the create-shaped and none of the update-shaped keys
Shapeless(ist) == ist.keys \cap (CreateKeys \cup UpdateKeys) = {}

IsTestEqual == last.op = "test_operation_equal"

\* a shapeless record is among the candidates find_id scanned
ScannedShapeless ==
    /\ IsFindId
    /\ last.search = DefaultFindSearch
    /\ valid_object_id(bmg.event_id)
    /\ \E i \in 1..last.res.scanned : Shapeless(last.bmgs[i])

\* C4 as stated: a shapeless record makes test_operation_equal (default
\* set) raise ValueError, and makes find_id (default set) raise that same
\* kind of error when it is among the scanned candidates.
C4_Original ==
    /\ (IsTestEqual /\ last.search = DefaultEqualSearch /\ Shapeless(last.ist))
          => last.res.ret = "ValueError"
    /\ ScannedShapeless => last.res.err = "ValueError"

\* C4 amended: a shapeless record makes test_operation_equal (default set)
\* raise ValueError instead of returning False; find_id (default set) does
\* not run the required-keys comparator, and a scanned shapeless record
\* makes it raise KeyError (the record has no description), not ValueError.
C4_ShapelessRaises ==
    /\ (IsTestEqual /\ last.search = DefaultEqualSearch /\ Shapeless(last.ist))
          => last.res.ret = "ValueError"
    /\ ScannedShapeless => (last.res.err = "KeyError" /\ last.res.ret = None)

C4_Witness ==
    \/ /\ IsTestEqual /\ last.search = DefaultEqualSearch /\ Shapeless(last.ist)
       /\ last.proposal.kind = "full"
       /\ last.res.ret = "ValueError"
    \/ /\ ScannedShapeless
       /\ last.res.scanned = 2
       /\ last.res.err = "KeyError"

\* the remote record's event id has the pending-proposal form 0.0.N
PendingRef(ist) == GetEventId(ist) # None /\ GetEventId(ist)[1] \in ProposalRefs

RefIndex(ist) == GetEventId(ist)[1][3]

ParentCheck == "parent.test_operation_equal"

\* C5 as stated: in every call of test_operation_equal on a record whose
\* event id is 0.0.N the parent check runs first, and a failing parent
\* check makes the result False whatever the comparators return.
C5_Original ==
    (IsTestEqual /\ PendingRef(last.ist)) =>
       /\ last.res.calls # <<>>
       /\ last.res.calls[1] = ParentCheck
       /\ (/\ last.proposal.kind = "full"
           /\ RefIndex(last.ist) < Len(last.proposal.ops)
           /\ ~last.proposal.ops[RefIndex(last.ist) + 1]) => last.res.ret = "False"

\* C5 amended: in every call of test_operation_equal that is passed a
\* non-empty proposal holding an operation N, on a record whose event id is
\* 0.0.N, operation N is checked against the parent event before any
\* comparator of the set runs; if that check fails the result is False and
\* no comparator runs, otherwise the comparators run in their order, up to
\* the first that raises, and the comparator set decides.
C5_ParentCheckedFirst ==
    (/\ IsTestEqual
     /\ PendingRef(last.ist)
     /\ last.proposal.kind = "full"
     /\ RefIndex(last.ist) < Len(last.proposal.ops)) =>
       LET ok    == last.proposal.ops[RefIndex(last.ist) + 1]
           names == [i \in 1..Len(last.search) |-> last.search[i].name]
       IN  /\ last.res.calls # <<>>
           /\ last.res.calls[1] = ParentCheck
           /\ ~ok => (last.res.ret = "False" /\ last.res.calls = <<ParentCheck>>)
           /\ ok  => /\ Len(last.res.calls) <= 1 + Len(names)
                     /\ Tail(last.res.calls)
                           = SubSeq(names, 1, Len(last.res.calls) - 1)
                     /\ ~IsError(last.res.ret)
                           => last.res.calls = <<ParentCheck>> \o names
                     /\ IsError(last.res.ret)
                           => IsError(Apply(last.search[Len(last.res.calls) - 1],
                                            bmg, last.ist))
                     /\ last.res.ret = AllOf(last.search, bmg, last.ist)

\* the parent check fails on a record the comparator set accepts
C5_Witness ==
    /\ IsTestEqual
    /\ PendingRef(last.ist)
    /\ last.proposal.kind = "full"
    /\ RefIndex(last.ist) = 1
    /\ Len(last.proposal.ops) = 2
    /\ ~last.proposal.ops[2]
    /\ last.search = DefaultEqualSearch
    /\ Matches(last.search, last.ist)
    /\ last.res.ret = "False"

IsOwn == last.op = "test_own_description"

\* the synthetic record wraps exactly the entity's generated description
WrapsOwnDescription ==
    /\ IsOwn
    /\ "description" \in last.ist.keys
    /\ last.ist.description = description(bmg)

\* C6 as stated: for every entity, with or without a status and with or
\* without dynamic parameters, the record built from the entity's own
\* description compares equal under the default comparator set.
C6_Original == WrapsOwnDescription => last.res.ret = "True"

\* C6 amended: test_operation_equal with the default comparator set is
\* reflexive for every entity without a status, with or without dynamic
\* parameters; for an entity with a status the record built from its own
\* description compares equal iff the record also carries that status.
C6_Reflexive ==
    WrapsOwnDescription =>
       /\ (bmg.status = "" \/ last.with_status) => last.res.ret = "True"
       /\ (bmg.status # "" /\ ~last.with_status) => last.res.ret = "False"

\* a dynamic entity with a status compared with its own description and status
C6_Witness ==
    /\ WrapsOwnDescription
    /\ HasKey(description(bmg), "_dynamic")
    /\ bmg.status # "" /\ last.with_status
    /\ last.res.ret = "True"

\* a dynamic entity without a status compared with its bare description
C6_WitnessNoStatus ==
    /\ WrapsOwnDescription
    /\ HasKey(description(bmg), "_ou")
    /\ bmg.status = "" /\ ~last.with_status
    /\ last.res.ret = "True"

IsCmp(name) == last.op = "cmp" /\ last.f.name = name

\* the discriminator the local entity generates: "ou", "hc" or "" (none)
LocalDynamic == IF TruthyNum(bmg.overunder) THEN "ou"
                ELSE IF bmg.handicaps # None THEN "hc" ELSE ""

\* the remote record carries a description with a discriminator
RemoteDynamic(ist) == "description" \in ist.keys /\ HasKey(ist.description, "_dynamic")

\* the remote parameter texts of the local discriminator are present and numeric
RemoteParams(ist) ==
    IF LocalDynamic = "ou"
    THEN HasKey(ist.description, "_ou") /\ IsNumeric(Lookup(ist.description, "_ou"))
    ELSE /\ HasKey(ist.description, "_hch") /\ IsNumeric(Lookup(ist.description, "_hch"))
         /\ HasKey(ist.description, "_hca") /\ IsNumeric(Lookup(ist.description, "_hca"))

\* the local parameters of the local discriminator are numbers
LocalParams ==
    IF LocalDynamic = "ou" THEN TRUE
    ELSE bmg.handicaps[1] # None /\ bmg.handicaps[2] # None

Within(x, center, spread) == Abs(x - center) <= spread

\* every remote parameter lies within spread of the local one
AllWithin(ist, spread) ==
    IF LocalDynamic = "ou"
    THEN Within(Lookup(ist.description, "_ou").a, bmg.overunder[1], spread)
    ELSE /\ Within(Lookup(ist.description, "_hch").a, bmg.handicaps[1][1], spread)
         /\ Within(Lookup(ist.description, "_hca").a, bmg.handicaps[2][1], spread)

\* C7: for a dynamic local entity and a remote record with a discriminator,
\* cmp_fuzzy(spread) is true exactly when the discriminators are equal and
\* every remote parameter x satisfies center - spread <= x <= center + spread
\* with the local value as center, both bounds inclusive; when the
\* discriminators differ it is False for every spread.
C7_FuzzyInclusiveRange ==
    (IsCmp("cmp_fuzzy") /\ LocalDynamic # "" /\ RemoteDynamic(last.ist)) =>
       LET same == Lookup(last.ist.description, "_dynamic").s = LocalDynamic
       IN  /\ ~same => last.ret = "False"
           /\ (same /\ LocalParams /\ RemoteParams(last.ist)) =>
                 /\ last.ret \in {"True", "False", "None"}
                 /\ last.ret = "True" <=> AllWithin(last.ist, last.f.spread)

\* a remote line exactly at center + spread, with a positive spread, matches
C7_Witness ==
    /\ IsCmp("cmp_fuzzy") /\ LocalDynamic = "ou" /\ RemoteDynamic(last.ist)
    /\ RemoteParams(last.ist)
    /\ last.f.spread > 0
    /\ Lookup(last.ist.description, "_ou").a = bmg.overunder[1] + last.f.spread
    /\ last.ret = "True"

\* the over/under line of a raw threshold t: floor(t) + 0.5
NormalizedLine(t) == PyFloor(t) + Half

\* C8 as stated: cmp_fuzzy compares normalized lines: for a local raw
\* threshold t and a remote line L it matches iff
\* |L - (floor(t) + 0.5)| <= spread.
C8_FuzzyOnNormalizedLine ==
    (/\ IsCmp("cmp_fuzzy") /\ LocalDynamic = "ou" /\ RemoteDynamic(last.ist)
     /\ Lookup(last.ist.description, "_dynamic").s = "ou"
     /\ RemoteParams(last.ist)) =>
       (last.ret = "True"
          <=> Within(Lookup(last.ist.description, "_ou").a,
                     NormalizedLine(bmg.overunder[1]), last.f.spread))

IsDescription == last.op = "description"

\* the exact-description comparator applied to the description of another entity
EqualToDescriptionOf(other) ==
    cmp_all_description(bmg, Record({"description"}, <<1, 20, 0>>,
                                    description(other), ParentEvent, "")) = "True"

\* C9 as stated: for every market-group that carries a handicaps pair or an
\* overunder value (the value 0 included) the generated description holds
\* the _dynamic discriminator and the matching parameter keys, and the
\* exact-description comparator rejects the description of the same
\* template with another overunder value.
C9_DynamicKeysAlwaysPresent ==
    IsDescription =>
       /\ bmg.handicaps # None =>
             /\ HasKey(last.ret, "_dynamic")
             /\ HasKey(last.ret, "_hch") /\ HasKey(last.ret, "_hca")
       /\ bmg.overunder # None =>
             /\ HasKey(last.ret, "_dynamic") /\ HasKey(last.ret, "_ou")
             /\ \A ou \in OverUnders :
                   ou # bmg.overunder => ~EqualToDescriptionOf(set_overunder(bmg, ou))

\* C10 as stated: the required-keys comparator accepts a remote record only
\* if it holds the full create-shaped key set or the full update-shaped
\* key set.
C10_RequiredKeysFullSet ==
    (IsCmp("cmp_required_keys") /\ last.ret = "True") =>
       (CreateKeys \subseteq last.ist.keys \/ UpdateKeys \subseteq last.ist.keys)

\* the (language, text) pairs of a description, as an unordered collection
PairSet(d) == {d[i] : i \in 1..Len(d)}

\* C11: cmp_all_description is true iff the local description and the
\* remote description (or its new_description alias) are both non-empty and
\* hold the same set of (language, text) pairs, whatever their order; one
\* differing, missing or extra pair on either side makes it False.
C11_ExactDescriptionSetEqual ==
    IsCmp("cmp_all_description") =>
       LET local  == description(bmg)
           remote == GetDescription(last.ist)
       IN  /\ last.ret \in {"True", "False"}
           /\ last.ret = "True" <=>
                 /\ remote # None
                 /\ remote[1] # <<>> /\ local # <<>>
                 /\ PairSet(local) = PairSet(remote[1])

\* the remote description is a reordering of the local one and matches
C11_Witness ==
    /\ IsCmp("cmp_all_description")
    /\ "description" \in last.ist.keys
    /\ last.ist.description # description(bmg)
    /\ PairSet(last.ist.description) = PairSet(description(bmg))
    /\ HasKey(description(bmg), "_ou")
    /\ last.ret = "True"

\* the new_description alias is compared, and one extra remote pair fails
C11_WitnessAliasAndExtra ==
    \/ /\ IsCmp("cmp_all_description")
       /\ "description" \notin last.ist.keys
       /\ "new_description" \in last.ist.keys
       /\ last.ret = "True"
    \/ /\ IsCmp("cmp_all_description")
       /\ "description" \in last.ist.keys
       /\ PairSet(description(bmg)) \subseteq PairSet(last.ist.description)
       /\ PairSet(description(bmg)) # PairSet(last.ist.description)
       /\ last.ret = "False"

\* the remote record's event id resolves to an Event object of the ledger
KnownEvent(ist) == GetEventId(ist) # None /\ GetEventId(ist)[1] \in EventIds

\* C12: cmp_event is true when the remote record's event id (event_id or
\* new_event_id) does not resolve to a known Event object, and otherwise is
\* true iff that id equals the local parent event's id; a record attached
\* to a different known event never passes.
C12_EventLinkage ==
    IsCmp("cmp_event") =>
       /\ last.ret \in {"True", "False"}
       /\ ~KnownEvent(last.ist) => last.ret = "True"
       /\ KnownEvent(last.ist) =>
             (last.ret = "True" <=> GetEventId(last.ist) = bmg.event_id)

\* a record attached to another known event is rejected
C12_Witness ==
    /\ IsCmp("cmp_event")
    /\ KnownEvent(last.ist)
    /\ bmg.event_id # None
    /\ GetEventId(last.ist) # bmg.event_id
    /\ last.ret = "False"

\* an unresolvable and a proposal-relative event id pass
C12_WitnessUnverifiable ==
    /\ IsCmp("cmp_event")
    /\ GetEventId(last.ist) # None
    /\ GetEventId(last.ist)[1] \in ProposalRefs \cup UnknownIds
    /\ last.ret = "True"

(***************************************************************************)
(* Error classes of grading                                                *)
(***************************************************************************)
HasNonStringExpr(rule) ==
    \E i \in 1..Len(rule.resolutions) :
       \E k \in 1..Len(rule.resolutions[i]) :
          rule.resolutions[i][k][2].op = "nonstr"

\* the class raised for an outcome expression that does not evaluate
RuleErrorClass == evaluate_metric(Expr("bad", 0), [err |-> "", v |-> 0]).err

\* the class raised when no outcome of a group is true
ZeroTrueClass ==
    resolutions(NewBmg("ou", "", Some(ParentEvent)), {"R1"},
                [metric |-> "total",
                 resolutions |-> <<Group2(Expr("False", 0), Expr("False", 0))>>],
                <<0, 0>>, DefaultHandicaps).err

\* C13: grading errors fall into two classes: a non-string metric template,
\* an unevaluable expression and a leg/group count mismatch are raised with
\* one and the same class, and a result that is not a list of two elements
\* is raised with a class different from that one and from the class of the
\* zero-or-multiple-true defect.
C13_TwoErrorClasses ==
    /\ (IsResolutions /\ last.res.err \notin {"", ZeroTrueClass}
           /\ ~HasNonStringExpr(last.grading))
          => last.res.err = RuleErrorClass
    /\ (last.op = "resolve_init" /\ Len(last.result) # 2)
          => /\ last.res.err # ""
             /\ last.res.err \notin {RuleErrorClass, ZeroTrueClass}

\* C15: when the number of outcome-groups differs from the number of legs,
\* in either direction, resolutions aborts with an error.
C15_CountMismatchAborts ==
    (IsResolutions /\ RuleListed
       /\ Len(last.grading.resolutions) # Len(bmg.bettingmarkets))
       => last.res.err # ""

Max(a, b) == IF a >= b THEN a ELSE b

\* C16: for every handicap pair (home, away), handicaps.home_score equals
\* max(0, -away) and handicaps.away_score equals max(0, -home).
C16_ScoreBaseline ==
    /\ (last.op = "metric" /\ RuleListed /\ last.tmpl = "home_score")
          => last.res = [err |-> "", v |-> Max(0, -last.handicaps[2])]
    /\ (last.op = "metric" /\ RuleListed /\ last.tmpl = "away_score")
          => last.res = [err |-> "", v |-> Max(0, -last.handicaps[1])]

\* C19: whenever the legs are enumerated through the bettingmarkets
\* property, by a full enumeration or by resolutions pulling one leg per
\* group, and the number of legs differs from number_betting_markets, the
\* critical diagnostic is reported; a full enumeration still yields every leg.
C19_CountDiagnosticAlways ==
    /\ (last.op = "bettingmarkets" \/ (IsResolutions /\ RuleListed))
          /\ count_mismatch(bmg)
          => last.res.critical
    /\ last.op = "bettingmarkets" => last.res.ret = bmg.bettingmarkets
(***************************************************************************)
(* Construction, handicaps, totality of the comparators                    *)
(***************************************************************************)
\* the mandatory fields the merged data of the last construction lacks
MissingFields ==
    {MandatoryFields[i] : i \in 1..Len(MandatoryFields)}
       \ (last.bmg_keys \cup last.extra_keys)

\* C14: constructing a market-group whose merged data lacks a mandatory
\* field fails with MissingMandatoryValue for a lacking field, for each of
\* the four fields, description included.
C14_MissingMandatoryRaises ==
    (last.op = "init" /\ MissingFields # {})
       => /\ last.res.err = "MissingMandatoryValue"
          /\ last.res.field \in MissingFields

\* C17: after set_handicaps with exactly one of home or away given, the
\* stored pair [h, a] satisfies a = -h and the given side is stored unchanged.
C17_HandicapsNegated ==
    /\ (last.op = "set_handicaps" /\ last.home # None /\ last.away = None)
          => /\ bmg.handicaps[1] = last.home
             /\ bmg.handicaps[2] # None
             /\ bmg.handicaps[2][1] = -last.home[1]
    /\ (last.op = "set_handicaps" /\ last.home = None /\ last.away # None)
          => /\ bmg.handicaps[2] = last.away
             /\ bmg.handicaps[1] # None
             /\ bmg.handicaps[1][1] = -last.away[1]

\* C18: every comparator other than required-keys returns exactly true or
\* false, and never raises, on every remote record that carries a description.
C18_ComparatorsTotal ==
    (last.op = "cmp" /\ last.f.name # "cmp_required_keys"
       /\ "description" \in last.ist.keys)
       => last.ret \in {"True", "False"}
(***************************************************************************)
(* Resolutions are never reported as existing                              *)
(***************************************************************************)
\* the buffer holds the very operation the resolve object of the last call
\* proposes
BufferHoldsOwn ==
    LET res == resolutions(bmg, last.sport, last.grading, last.result,
                           DefaultHandicaps)
    IN  /\ res.err = ""
        /\ \E i \in 1..Len(proposal_buffer) :
              proposal_buffer[i] = ResolveOp(ParentBmgId, res.ret)

\* C20: is_synced returns false in every reachable state, also after
\* propose_new has been called any number of times, and find_id always
\* returns the absent value.
C20_NeverSynced ==
    /\ last.op = "is_synced" => last.ret = "False"
    /\ last.op = "find_id_resolve" => last.ret = "None"

C20_Witness ==
    /\ last.op = "is_synced" /\ last.ret = "False"
    /\ Len(proposal_buffer) >= 2
    /\ BufferHoldsOwn
====
